---- MODULE Spec2Model ----
(***************************************************************************)
(* gh-repo-info (src/src/lib.rs): get and blocking::get fetch one          *)
(* repository record from the GitHub REST API and decode it with serde.    *)
(*                                                                         *)
(* Strings are sequences of octets (the UTF-8 bytes of a Rust &str).       *)
(* JSON values, results and errors are tagged tuples <<tag, payload>>.     *)
(***************************************************************************)
EXTENDS Integers, Sequences, FiniteSets, TLC

VARIABLES
    variant,  \* variant[i]: "async" (get) or "blocking" (blocking::get)
    owner,    \* owner[i]: the owner argument of invocation i
    repo,     \* repo[i]: the repo argument of invocation i
    net,      \* net[i]: what the transport does with invocation i's request
    pc,       \* pc[i]: where invocation i stands in its function body
    dropped,  \* dropped[i]: the future of invocation i was dropped by its caller
    sent,     \* sent[i]: the requests invocation i handed to the transport
    resp,     \* resp[i]: the local `resp` of invocation i
    decodes,  \* decodes[i]: how often invocation i ran the body decoder
    result    \* result[i]: what invocation i returned to its caller

vars == <<variant, owner, repo, net, pc, dropped, sent, resp, decodes, result>>

(***************************************************************************)
(* Bounds of the model.                                                    *)
(***************************************************************************)
\* Concurrent invocations in the main specification.
NCalls == 2
\* Longest owner / repo argument, in characters, in the URL specification.
MaxLen == 2

(***************************************************************************)
(* Octets and strings.                                                     *)
(***************************************************************************)
\* "https://api.github.com/repos/" (lib.rs:198), as octets.
UrlPrefix ==
    <<104, 116, 116, 112, 115, 58, 47, 47, 97, 112, 105, 46, 103, 105, 116,
      104, 117, 98, 46, 99, 111, 109, 47, 114, 101, 112, 111, 115, 47>>

\* urlencoding::encode leaves exactly these octets as they are:
\* b'0'..=b'9' | b'A'..=b'Z' | b'a'..=b'z' | b'-' | b'.' | b'_' | b'~'.
IsUnreserved(b) ==
    \/ b \in 48..57
    \/ b \in 65..90
    \/ b \in 97..122
    \/ b \in {45, 46, 95, 126}

\* urlencoding's to_hex_digit: upper-case hexadecimal.
to_hex_digit(d) == IF d < 10 THEN 48 + d ELSE 65 - 10 + d

\* urlencoding::encode, octet by octet: '%', high nibble, low nibble.
RECURSIVE encode(_)
encode(data) ==
    IF data = <<>>
    THEN <<>>
    ELSE LET b == Head(data)
         IN  (IF IsUnreserved(b)
              THEN <<b>>
              ELSE <<37, to_hex_digit(b \div 16), to_hex_digit(b % 16)>>)
             \o encode(Tail(data))

\* A plausible slip: only the owner is encoded.
api_url_raw_repo(o, r) == UrlPrefix \o encode(o) \o <<47>> \o r

\* fn api_url: format!("https://api.github.com/repos/{owner}/{repo}").
api_url(o, r) == UrlPrefix \o encode(o) \o <<47>> \o encode(r)

(***************************************************************************)
(* JSON values, as serde_json reads them.                                  *)
(***************************************************************************)
JStr(s) == <<"string", s>>
JNum(n) == <<"number", n>>      \* an integer literal within u64
JBig == <<"bignumber", 0>>      \* an integer literal above u64::MAX
JFloat == <<"float", 0>>        \* a literal with a fraction or an exponent
JBool(b) == <<"bool", b>>
JNull == <<"null", 0>>
JArr(a) == <<"array", a>>       \* a: sequence of JSON values
JObj(f) == <<"object", f>>      \* f: function from key to JSON value (no key twice)
\* The bytes of a body that is no JSON document (empty, HTML, truncated).
NotJson == <<"invalid", 0>>
\* The slot of a struct field whose key the object does not hold.
MissingField == <<"missing", 0>>

DeOk(v) == <<"ok", v>>
DeErr(why) == <<"err", why>>
IsOk(r) == r[1] = "ok"

\* String: serde_json's deserialize_string takes a JSON string and nothing else.
Deserialize_String(v) ==
    IF v[1] = "string" THEN DeOk(v[2]) ELSE DeErr("invalid type")

\* usize: a non-negative integer literal that fits the word.
Deserialize_usize(v) ==
    IF v[1] = "number" /\ v[2] >= 0 THEN DeOk(v[2]) ELSE DeErr("invalid type")

\* bool: true or false and nothing else.
Deserialize_bool(v) ==
    IF v[1] = "bool" THEN DeOk(v[2]) ELSE DeErr("invalid type")

\* Vec<String>: an array whose elements are all strings, in the array's order.
Deserialize_VecString(v) ==
    IF v[1] = "array" /\ \A k \in 1..Len(v[2]) : v[2][k][1] = "string"
    THEN DeOk([k \in 1..Len(v[2]) |-> v[2][k][2]])
    ELSE DeErr("invalid type")

\* The values of a derived struct's fields, in declaration order.  A derived
\* Deserialize has visit_map (a JSON object: fields by key, unknown keys
\* ignored, an absent key a "missing field" error when the field is read) and
\* visit_seq (a JSON array: fields by position, the length exact).
StructSlots(v, names) ==
    IF v[1] = "object"
    THEN DeOk([k \in 1..Len(names) |->
                 IF names[k] \in DOMAIN v[2] THEN v[2][names[k]] ELSE MissingField])
    ELSE IF v[1] = "array" /\ Len(v[2]) = Len(names)
         THEN DeOk(v[2])
         ELSE DeErr("invalid type")

\* enum GhRepoOwnerKind { User, Organization }: a unit variant is its name as a
\* string, or (serde_json's deserialize_enum) an object of one entry, the
\* variant's name with the value null.
OwnerKinds == {"User", "Organization"}

\* A plausible slip: #[serde(other)] or a Default, an unknown value read as User.
Deserialize_GhRepoOwnerKind_default(v) ==
    IF v[1] = "string" /\ v[2] \in OwnerKinds
    THEN DeOk(v[2])
    ELSE DeOk("User")

Deserialize_GhRepoOwnerKind(v) ==
    IF v[1] = "string" /\ v[2] \in OwnerKinds
    THEN DeOk(v[2])
    ELSE IF /\ v[1] = "object"
            /\ Cardinality(DOMAIN v[2]) = 1
            /\ \E k \in DOMAIN v[2] : k \in OwnerKinds /\ v[2][k] = JNull
         THEN DeOk(CHOOSE k \in DOMAIN v[2] : TRUE)
         ELSE DeErr("unknown variant")

\* struct GhRepoLicenseInfo { key, name }.
LicenseFields == <<"key", "name">>

Deserialize_GhRepoLicenseInfo(v) ==
    LET s == StructSlots(v, LicenseFields)
    IN  IF ~IsOk(s) THEN s
        ELSE LET key == Deserialize_String(s[2][1])
                 name == Deserialize_String(s[2][2])
             IN  IF IsOk(key) /\ IsOk(name)
                 THEN DeOk([key |-> key[2], name |-> name[2]])
                 ELSE DeErr("invalid field")

\* struct GhRepoOwnerInfo, by the keys its renames give: login, html_url,
\* avatar_url, type.
OwnerFields == <<"login", "html_url", "avatar_url", "type">>

Deserialize_GhRepoOwnerInfo(v) ==
    LET s == StructSlots(v, OwnerFields)
    IN  IF ~IsOk(s) THEN s
        ELSE LET name == Deserialize_String(s[2][1])
                 url == Deserialize_String(s[2][2])
                 avatar_url == Deserialize_String(s[2][3])
                 kind == Deserialize_GhRepoOwnerKind(s[2][4])
             IN  IF IsOk(name) /\ IsOk(url) /\ IsOk(avatar_url) /\ IsOk(kind)
                 THEN DeOk([name |-> name[2], url |-> url[2],
                            avatar_url |-> avatar_url[2], kind |-> kind[2]])
                 ELSE DeErr("invalid field")

\* A plausible slip: `url` without its rename.
RepoFields_no_rename ==
    <<"name", "full_name", "url", "owner", "stargazers_count",
      "subscribers_count", "forks_count", "open_issues_count", "fork",
      "archived", "default_branch", "homepage", "description", "license",
      "language", "topics">>

\* struct GhRepoInfo, by the keys its renames give, in declaration order.
RepoFields ==
    <<"name", "full_name", "html_url", "owner", "stargazers_count",
      "subscribers_count", "forks_count", "open_issues_count", "fork",
      "archived", "default_branch", "homepage", "description", "license",
      "language", "topics">>

Deserialize_GhRepoInfo(v) ==
    LET s == StructSlots(v, RepoFields)
    IN  IF ~IsOk(s) THEN s
        ELSE LET f == s[2]
                 name == Deserialize_String(f[1])
                 full_name == Deserialize_String(f[2])
                 url == Deserialize_String(f[3])
                 own == Deserialize_GhRepoOwnerInfo(f[4])
                 stargazers_count == Deserialize_usize(f[5])
                 subscribers_count == Deserialize_usize(f[6])
                 forks_count == Deserialize_usize(f[7])
                 open_issues_count == Deserialize_usize(f[8])
                 is_fork == Deserialize_bool(f[9])
                 is_archived == Deserialize_bool(f[10])
                 default_branch == Deserialize_String(f[11])
                 homepage == Deserialize_String(f[12])
                 description == Deserialize_String(f[13])
                 license == Deserialize_GhRepoLicenseInfo(f[14])
                 language == Deserialize_String(f[15])
                 topics == Deserialize_VecString(f[16])
             IN  IF /\ IsOk(name) /\ IsOk(full_name) /\ IsOk(url) /\ IsOk(own)
                    /\ IsOk(stargazers_count) /\ IsOk(subscribers_count)
                    /\ IsOk(forks_count) /\ IsOk(open_issues_count)
                    /\ IsOk(is_fork) /\ IsOk(is_archived)
                    /\ IsOk(default_branch) /\ IsOk(homepage)
                    /\ IsOk(description) /\ IsOk(license) /\ IsOk(language)
                    /\ IsOk(topics)
                 THEN DeOk([name |-> name[2],
                            full_name |-> full_name[2],
                            url |-> url[2],
                            owner |-> own[2],
                            stargazers_count |-> stargazers_count[2],
                            subscribers_count |-> subscribers_count[2],
                            forks_count |-> forks_count[2],
                            open_issues_count |-> open_issues_count[2],
                            is_fork |-> is_fork[2],
                            is_archived |-> is_archived[2],
                            default_branch |-> default_branch[2],
                            homepage |-> homepage[2],
                            description |-> description[2],
                            license |-> license[2],
                            language |-> language[2],
                            topics |-> topics[2]])
                 ELSE DeErr("invalid field")

\* serde_json::from_slice::<GhRepoInfo>: the bytes are one JSON document, and
\* the document decodes as the struct.
from_slice(bytes) ==
    IF bytes = NotJson THEN DeErr("syntax") ELSE Deserialize_GhRepoInfo(bytes)

(***************************************************************************)
(* Results, requests and the transport.                                    *)
(***************************************************************************)
\* Result<GhRepoInfo, GhRepoInfoError>; Pending: nothing was returned (yet).
Pending == <<"Pending", 0>>
Ok(info) == <<"Ok", info>>
\* enum GhRepoInfoError; a reqwest::Error is modelled by its cause.
SendRequest(cause) == <<"Err", "SendRequest", cause>>
ResponseNonSuccess(status) == <<"Err", "ResponseNonSuccess", status>>
DeserializeFailed(cause) == <<"Err", "DeserializeFailed", cause>>

\* env!("CARGO_PKG_NAME").
CARGO_PKG_NAME == "gh-repo-info"

\* The local `resp` before send() has returned.
NoResponse == <<"none", 0>>

\* A plausible slip: redirects taken for successes.
is_success_below_400(status) == status \in 200..399

\* StatusCode::is_success.
is_success(status) == status \in 200..299

\* Client::new().get(url).header("User-Agent", ...): the request of get.
get_request(o, r) ==
    [method |-> "GET", url |-> api_url(o, r),
     headers |-> ("User-Agent" :> CARGO_PKG_NAME)]

\* A plausible slip: the header left out of one variant.
blocking_get_request_no_header(o, r) ==
    [method |-> "GET", url |-> api_url(o, r), headers |-> <<>>]

\* blocking::Client::new().get(url).header(...): the request of blocking::get.
blocking_get_request(o, r) ==
    [method |-> "GET", url |-> api_url(o, r),
     headers |-> ("User-Agent" :> CARGO_PKG_NAME)]

\* A plausible slip: a request sent again.
send_twice(log, req) == log \o <<req, req>>

\* .send(): the request is handed to the transport, once.
send(log, req) == Append(log, req)

\* A plausible slip: one client shared by all invocations, holding the answer
\* to the first request.
transport_shared(i) == net[CHOOSE j \in DOMAIN net : \A k \in DOMAIN net : j <= k]

\* What the transport answers to invocation i's request: each invocation
\* builds its own client and reads the answer to its own request.
transport(i) == net[i]

\* A plausible slip: a task that goes on after its future was dropped.
polled_after_drop(i) == TRUE

\* A future makes progress only while its caller holds and polls it.
polled(i) == ~dropped[i]

\* get, from send().await to the status check: what the invocation holds
\* when it suspends again or returns.
get_on_send(n) ==
    IF n.send # "ok"
    THEN [pc |-> "done", resp |-> NoResponse, result |-> SendRequest(n.send)]
    ELSE IF ~is_success(n.status)
         THEN [pc |-> "done", resp |-> <<"response", n.status>>,
               result |-> ResponseNonSuccess(n.status)]
         ELSE [pc |-> "await_json", resp |-> <<"response", n.status>>,
               result |-> Pending]

\* get, resp.json::<GhRepoInfo>().await: Response::json reads the whole body
\* (an error of the read is returned as it is) and hands the bytes to
\* serde_json::from_slice; map_err wraps either error.
get_on_json(n) ==
    IF n.read # "ok"
    THEN [decodes |-> 0, result |-> DeserializeFailed(n.read)]
    ELSE LET d == from_slice(n.body)
         IN  [decodes |-> 1,
              result |-> IF IsOk(d) THEN Ok(d[2]) ELSE DeserializeFailed("decode")]

\* A plausible slip: the status check left out of one variant.
blocking_get_on_send_unchecked(n) ==
    IF n.send # "ok"
    THEN [pc |-> "done", resp |-> NoResponse, result |-> SendRequest(n.send)]
    ELSE [pc |-> "in_json", resp |-> <<"response", n.status>>, result |-> Pending]

\* blocking::get, from send() to the status check.
blocking_get_on_send(n) ==
    IF n.send # "ok"
    THEN [pc |-> "done", resp |-> NoResponse, result |-> SendRequest(n.send)]
    ELSE IF ~is_success(n.status)
         THEN [pc |-> "done", resp |-> <<"response", n.status>>,
               result |-> ResponseNonSuccess(n.status)]
         ELSE [pc |-> "in_json", resp |-> <<"response", n.status>>,
               result |-> Pending]

\* blocking::get, resp.json::<GhRepoInfo>().
blocking_get_on_json(n) ==
    IF n.read # "ok"
    THEN [decodes |-> 0, result |-> DeserializeFailed(n.read)]
    ELSE LET d == from_slice(n.body)
         IN  [decodes |-> 1,
              result |-> IF IsOk(d) THEN Ok(d[2]) ELSE DeserializeFailed("decode")]

(***************************************************************************)
(* The invocations.                                                        *)
(***************************************************************************)
Calls == DOMAIN pc

\* get is called and polled for the first time: the URL is built and the
\* request is sent; the future suspends at send().await.
Get_Start(i) ==
    /\ variant[i] = "async" /\ pc[i] = "start" /\ polled(i)
    /\ sent' = [sent EXCEPT ![i] = send(@, get_request(owner[i], repo[i]))]
    /\ pc' = [pc EXCEPT ![i] = "await_send"]
    /\ UNCHANGED <<variant, owner, repo, net, dropped, resp, decodes, result>>

\* send().await is ready: map_err(SendRequest)?, then the status check.
Get_SendReady(i) ==
    /\ variant[i] = "async" /\ pc[i] = "await_send" /\ polled(i)
    /\ LET step == get_on_send(transport(i))
       IN  /\ pc' = [pc EXCEPT ![i] = step.pc]
           /\ resp' = [resp EXCEPT ![i] = step.resp]
           /\ result' = [result EXCEPT ![i] = step.result]
    /\ UNCHANGED <<variant, owner, repo, net, dropped, sent, decodes>>

\* json().await is ready: map_err(DeserializeFailed)?, then Ok(repo).
Get_JsonReady(i) ==
    /\ variant[i] = "async" /\ pc[i] = "await_json" /\ polled(i)
    /\ LET step == get_on_json(transport(i))
       IN  /\ decodes' = [decodes EXCEPT ![i] = @ + step.decodes]
           /\ result' = [result EXCEPT ![i] = step.result]
    /\ pc' = [pc EXCEPT ![i] = "done"]
    /\ UNCHANGED <<variant, owner, repo, net, dropped, sent, resp>>

\* The caller drops the future before it has completed.
Get_Drop(i) ==
    /\ variant[i] = "async" /\ pc[i] \in {"start", "await_send", "await_json"}
    /\ ~dropped[i]
    /\ dropped' = [dropped EXCEPT ![i] = TRUE]
    /\ UNCHANGED <<variant, owner, repo, net, pc, sent, resp, decodes, result>>

\* blocking::get is called: the URL is built, the request is sent and the
\* thread blocks in send().
Blocking_Get_Start(i) ==
    /\ variant[i] = "blocking" /\ pc[i] = "start"
    /\ sent' = [sent EXCEPT ![i] = send(@, blocking_get_request(owner[i], repo[i]))]
    /\ pc' = [pc EXCEPT ![i] = "in_send"]
    /\ UNCHANGED <<variant, owner, repo, net, dropped, resp, decodes, result>>

\* send() returns: map_err(SendRequest)?, then the status check.
Blocking_Get_SendReturns(i) ==
    /\ variant[i] = "blocking" /\ pc[i] = "in_send"
    /\ LET step == blocking_get_on_send(transport(i))
       IN  /\ pc' = [pc EXCEPT ![i] = step.pc]
           /\ resp' = [resp EXCEPT ![i] = step.resp]
           /\ result' = [result EXCEPT ![i] = step.result]
    /\ UNCHANGED <<variant, owner, repo, net, dropped, sent, decodes>>

\* json() returns: map_err(DeserializeFailed)?, then Ok(repo).
Blocking_Get_JsonReturns(i) ==
    /\ variant[i] = "blocking" /\ pc[i] = "in_json"
    /\ LET step == blocking_get_on_json(transport(i))
       IN  /\ decodes' = [decodes EXCEPT ![i] = @ + step.decodes]
           /\ result' = [result EXCEPT ![i] = step.result]
    /\ pc' = [pc EXCEPT ![i] = "done"]
    /\ UNCHANGED <<variant, owner, repo, net, dropped, sent, resp>>

Next ==
    \/ \E i \in Calls : Get_Start(i)
    \/ \E i \in Calls : Get_SendReady(i)
    \/ \E i \in Calls : Get_JsonReady(i)
    \/ \E i \in Calls : Get_Drop(i)
    \/ \E i \in Calls : Blocking_Get_Start(i)
    \/ \E i \in Calls : Blocking_Get_SendReturns(i)
    \/ \E i \in Calls : Blocking_Get_JsonReturns(i)

(***************************************************************************)
(* Inputs: arguments, response bodies, transport behaviours.               *)
(***************************************************************************)
\* Characters of an argument, as their UTF-8 octets: a / ? # space and U+00E9.
Chars == {<<97>>, <<47>>, <<63>>, <<35>>, <<32>>, <<195, 169>>}

\* The strings of at most n characters.
RECURSIVE StrsUpTo(_)
StrsUpTo(n) ==
    IF n = 0
    THEN {<<>>}
    ELSE LET shorter == StrsUpTo(n - 1)
         IN  shorter \cup {s \o c : s \in shorter, c \in Chars}

\* "rust-lang" and "rust".
RustLang == <<114, 117, 115, 116, 45, 108, 97, 110, 103>>
Rust == <<114, 117, 115, 116>>
\* The argument pairs of the concurrent invocations: rust-lang/rust and "a/b"/"?".
Pairs == {<<RustLang, Rust>>, <<(<<97, 47, 98>>), (<<63>>)>>}

Without(o, k) == [j \in DOMAIN o \ {k} |-> o[j]]
With(o, k, v) == [j \in DOMAIN o \cup {k} |-> IF j = k THEN v ELSE o[j]]

\* The response of the API for rust-lang/rust (the crate's documented output,
\* lib.rs:36-66), with the keys `id` and `url` the API sends and the crate
\* does not read.
BaseOwner ==
    [login |-> JStr("rust-lang"),
     id |-> JNum(5430905),
     url |-> JStr("https://api.github.com/users/rust-lang"),
     html_url |-> JStr("https://github.com/rust-lang"),
     avatar_url |-> JStr("https://avatars.githubusercontent.com/u/5430905?v=4"),
     type |-> JStr("Organization")]

BaseLicense == [key |-> JStr("other"), name |-> JStr("Other")]

BaseBody ==
    [id |-> JNum(724712),
     name |-> JStr("rust"),
     full_name |-> JStr("rust-lang/rust"),
     url |-> JStr("https://api.github.com/repos/rust-lang/rust"),
     html_url |-> JStr("https://github.com/rust-lang/rust"),
     owner |-> JObj(BaseOwner),
     stargazers_count |-> JNum(82127),
     subscribers_count |-> JNum(1489),
     forks_count |-> JNum(10830),
     open_issues_count |-> JNum(9549),
     fork |-> JBool(FALSE),
     archived |-> JBool(FALSE),
     default_branch |-> JStr("master"),
     homepage |-> JStr("https://www.rust-lang.org"),
     description |-> JStr("Empowering everyone to build reliable and efficient software."),
     license |-> JObj(BaseLicense),
     language |-> JStr("Rust"),
     topics |-> JArr(<<JStr("compiler"), JStr("hacktoberfest"),
                       JStr("language"), JStr("rust")>>)]

\* Values put in place of a field's value.
OtherValues ==
    {JNull, JStr(""), JStr("User"), JNum(0), JNum(-1), JBig, JFloat,
     JBool(TRUE), JArr(<<>>), JArr(<<JStr("rust"), JStr("compiler")>>),
     JArr(<<JStr("rust"), JNum(1)>>), JObj(<<>>)}

\* Values of the owner's `type`.
TypeValues ==
    {JStr("User"), JStr("Organization"), JStr("Bot"), JStr("user"),
     JObj([User |-> JNull]), JObj([Organization |-> JNull]),
     JObj([Bot |-> JNull]), JObj([User |-> JStr("User")]),
     JObj([User |-> JNull, Organization |-> JNull])}

\* A struct written as the array of its fields' values.
AsArray(o, names) == JArr([k \in 1..Len(names) |-> o[names[k]]])

Owners ==
    {JObj(Without(BaseOwner, k)) : k \in DOMAIN BaseOwner}
    \cup {JObj(With(BaseOwner, "type", t)) : t \in TypeValues}
    \cup {JObj(With(BaseOwner, k, JNull)) : k \in DOMAIN BaseOwner}
    \cup {AsArray(With(BaseOwner, "type", t), OwnerFields) :
            t \in {JStr("User"), JStr("Bot")}}
    \cup {JArr(<<JStr("rust-lang")>>)}

Licenses ==
    {JObj(Without(BaseLicense, k)) : k \in DOMAIN BaseLicense}
    \cup {JObj(With(BaseLicense, k, JNull)) : k \in DOMAIN BaseLicense}
    \cup {AsArray(BaseLicense, LicenseFields), JArr(<<JStr("other")>>)}

Bodies ==
    {JObj(BaseBody), NotJson, JNull, JStr("rust"), JArr(<<>>)}
    \cup {JObj(Without(BaseBody, k)) : k \in DOMAIN BaseBody}
    \cup {JObj(With(BaseBody, k, v)) : k \in DOMAIN BaseBody, v \in OtherValues}
    \cup {JObj(With(BaseBody, "owner", o)) : o \in Owners}
    \cup {JObj(With(BaseBody, "license", l)) : l \in Licenses}
    \cup {AsArray(BaseBody, RepoFields),
          AsArray(With(BaseBody, "owner", AsArray(BaseOwner, OwnerFields)),
                  RepoFields),
          AsArray(BaseBody, SubSeq(RepoFields, 1, 15)),
          AsArray(BaseBody, RepoFields \o <<"id">>)}

\* Status codes: the ends of the success range, their neighbours, and others.
Statuses == {199, 200, 204, 299, 300, 404, 500}

\* What the transport does with a request: send() fails (connect, timeout) or
\* yields a response with a status; reading the body fails ("body") or yields
\* its bytes.
Nets(statuses, bodies) ==
    [send : {"ok", "connect", "timeout"}, status : statuses,
     read : {"ok", "body"}, body : bodies]

WideNets == Nets(Statuses, Bodies)

\* The transport behaviours of the concurrent invocations.
FewNets ==
    {[send |-> "connect", status |-> 200, read |-> "ok", body |-> JObj(BaseBody)],
     [send |-> "ok", status |-> 404, read |-> "ok", body |-> JObj(BaseBody)],
     [send |-> "ok", status |-> 200, read |-> "ok", body |-> JObj(BaseBody)],
     [send |-> "ok", status |-> 200, read |-> "body", body |-> JObj(BaseBody)]}

(***************************************************************************)
(* Specifications.                                                         *)
(***************************************************************************)
\* No invocation has run yet.
Fresh(C) ==
    /\ pc = [i \in C |-> "start"]
    /\ dropped = [i \in C |-> FALSE]
    /\ sent = [i \in C |-> <<>>]
    /\ resp = [i \in C |-> NoResponse]
    /\ decodes = [i \in C |-> 0]
    /\ result = [i \in C |-> Pending]

\* NCalls concurrent invocations of either variant.
Init ==
    /\ variant \in [1..NCalls -> {"async", "blocking"}]
    /\ \E f \in [1..NCalls -> Pairs] :
          /\ owner = [i \in 1..NCalls |-> f[i][1]]
          /\ repo = [i \in 1..NCalls |-> f[i][2]]
    /\ net \in [1..NCalls -> FewNets]
    /\ Fresh(1..NCalls)

Spec == Init /\ [][Next]_vars

\* One invocation, any transport behaviour.
InitOne ==
    /\ variant \in [{1} -> {"async", "blocking"}]
    /\ owner = [i \in {1} |-> RustLang]
    /\ repo = [i \in {1} |-> Rust]
    /\ net \in [{1} -> WideNets]
    /\ Fresh({1})

SpecOne == InitOne /\ [][Next]_vars

\* One invocation of get and one of blocking::get with the same arguments and
\* the same transport behaviour.
InitPair ==
    /\ variant = <<"async", "blocking">>
    /\ owner = [i \in {1, 2} |-> RustLang]
    /\ repo = [i \in {1, 2} |-> Rust]
    /\ \E n \in WideNets : net = [i \in {1, 2} |-> n]
    /\ Fresh({1, 2})

SpecPair == InitPair /\ [][Next]_vars

\* One invocation, any arguments of at most MaxLen characters.
InitUrl ==
    /\ variant \in [{1} -> {"async", "blocking"}]
    /\ owner \in [{1} -> StrsUpTo(MaxLen)]
    /\ repo \in [{1} -> StrsUpTo(MaxLen)]
    /\ net = [i \in {1} |->
                [send |-> "ok", status |-> 200, read |-> "ok",
                 body |-> JObj(BaseBody)]]
    /\ Fresh({1})

SpecUrl == InitUrl /\ [][Next]_vars

(***************************************************************************)
(* Properties.                                                             *)
(***************************************************************************)
Done(i) == pc[i] = "done"
IsErr(r, kind) == r[1] = "Err" /\ r[2] = kind
\* The response of invocation i was received whole.
Received(i) == net[i].send = "ok" /\ net[i].read = "ok"

\* C1: once a response with a status outside 200..299 is held, the invocation
\* has returned ResponseNonSuccess with that status and has never run the
\* body decoder, whatever the body is.
C1_NonSuccessShortCircuits ==
    \A i \in Calls :
        (resp[i][1] = "response" /\ resp[i][2] \notin 200..299)
            => /\ Done(i)
               /\ result[i] = ResponseNonSuccess(resp[i][2])
               /\ decodes[i] = 0

\* C1 happens: a 404 whose body is the valid document.
C1_Witness ==
    \E i \in Calls :
        /\ Done(i) /\ resp[i] = <<"response", 404>>
        /\ net[i].body = JObj(BaseBody) /\ net[i].read = "ok"

\* C2: a failure to send, or to receive the body after a 2xx status, is
\* returned as SendRequest; DeserializeFailed is returned only for a body
\* that was received whole and does not decode.
C2_TransportFailureInEveryPhase ==
    \A i \in Calls :
        Done(i) =>
            /\ (net[i].send # "ok" \/ (net[i].status \in 200..299 /\ net[i].read # "ok"))
                  => IsErr(result[i], "SendRequest")
            /\ IsErr(result[i], "DeserializeFailed")
                  => (Received(i) /\ ~IsOk(from_slice(net[i].body)))

(***************************************************************************)
(* The schema of the response body, as the properties state it.            *)
(***************************************************************************)
IsString(v) == v[1] = "string"
IsCount(v) == v[1] = "number" /\ v[2] >= 0
IsBool(v) == v[1] = "bool"
IsStringArray(v) == v[1] = "array" /\ \A k \in 1..Len(v[2]) : v[2][k][1] = "string"

SchemaLicense == <<"key", "name">>
SchemaOwner == <<"login", "html_url", "avatar_url", "type">>
SchemaRepo ==
    <<"name", "full_name", "html_url", "owner", "stargazers_count",
      "subscribers_count", "forks_count", "open_issues_count", "fork",
      "archived", "default_branch", "homepage", "description", "license",
      "language", "topics">>
Keys(names) == {names[k] : k \in 1..Len(names)}

\* `type` as the schema gives it, and as an object of one entry with the value null.
KindLiterals == {JStr("User"), JStr("Organization")}
KindObjects == {JObj([User |-> JNull]), JObj([Organization |-> JNull])}
KindName(v) == IF v[1] = "string" THEN v[2] ELSE CHOOSE k \in DOMAIN v[2] : TRUE

\* v gives every field of a struct: as an object holding every key or, with
\* alt, as the array of the fields' values in the order of their declaration.
IsStruct(v, names, alt) ==
    \/ v[1] = "object" /\ Keys(names) \subseteq DOMAIN v[2]
    \/ alt /\ v[1] = "array" /\ Len(v[2]) = Len(names)

\* The value of field `key` of a struct v.
At(v, names, key) ==
    IF v[1] = "object"
    THEN v[2][key]
    ELSE v[2][CHOOSE k \in 1..Len(names) : names[k] = key]

MatchesLicense(v, alt) ==
    /\ IsStruct(v, SchemaLicense, alt)
    /\ \A key \in Keys(SchemaLicense) : IsString(At(v, SchemaLicense, key))

MatchesOwner(v, alt) ==
    /\ IsStruct(v, SchemaOwner, alt)
    /\ \A key \in {"login", "html_url", "avatar_url"} : IsString(At(v, SchemaOwner, key))
    /\ \/ At(v, SchemaOwner, "type") \in KindLiterals
       \/ alt /\ At(v, SchemaOwner, "type") \in KindObjects

\* The body matches the schema: an object with every required field, each of
\* its type.  With alt, serde's other spellings count as well.
MatchesRepo(v, alt) ==
    /\ IsStruct(v, SchemaRepo, alt)
    /\ \A key \in {"name", "full_name", "html_url", "default_branch", "homepage",
                   "description", "language"} : IsString(At(v, SchemaRepo, key))
    /\ \A key \in {"stargazers_count", "subscribers_count", "forks_count",
                   "open_issues_count"} : IsCount(At(v, SchemaRepo, key))
    /\ \A key \in {"fork", "archived"} : IsBool(At(v, SchemaRepo, key))
    /\ IsStringArray(At(v, SchemaRepo, "topics"))
    /\ MatchesOwner(At(v, SchemaRepo, "owner"), alt)
    /\ MatchesLicense(At(v, SchemaRepo, "license"), alt)

\* info is the body v field by field: html_url -> url, fork -> is_fork,
\* archived -> is_archived, login -> owner.name, type -> owner.kind, every
\* other field under its own name, topics in the body's order.
Mapped(info, v) ==
    LET f(key) == At(v, SchemaRepo, key)[2]
        o(key) == At(At(v, SchemaRepo, "owner"), SchemaOwner, key)
        l(key) == At(At(v, SchemaRepo, "license"), SchemaLicense, key)[2]
        t == At(v, SchemaRepo, "topics")[2]
    IN  /\ info.name = f("name")
        /\ info.full_name = f("full_name")
        /\ info.url = f("html_url")
        /\ info.owner.name = o("login")[2]
        /\ info.owner.url = o("html_url")[2]
        /\ info.owner.avatar_url = o("avatar_url")[2]
        /\ info.owner.kind = KindName(o("type"))
        /\ info.stargazers_count = f("stargazers_count")
        /\ info.subscribers_count = f("subscribers_count")
        /\ info.forks_count = f("forks_count")
        /\ info.open_issues_count = f("open_issues_count")
        /\ info.is_fork = f("fork")
        /\ info.is_archived = f("archived")
        /\ info.default_branch = f("default_branch")
        /\ info.homepage = f("homepage")
        /\ info.description = f("description")
        /\ info.license.key = l("key")
        /\ info.license.name = l("name")
        /\ info.language = f("language")
        /\ Len(info.topics) = Len(t)
        /\ \A k \in 1..Len(t) : info.topics[k] = t[k][2]

\* A required field is absent from the body object, or from its owner or
\* license object.
MissingRequired(v) ==
    /\ v[1] = "object"
    /\ \/ ~(Keys(SchemaRepo) \subseteq DOMAIN v[2])
       \/ /\ "owner" \in DOMAIN v[2] /\ v[2]["owner"][1] = "object"
          /\ ~(Keys(SchemaOwner) \subseteq DOMAIN v[2]["owner"][2])
       \/ /\ "license" \in DOMAIN v[2] /\ v[2]["license"][1] = "object"
          /\ ~(Keys(SchemaLicense) \subseteq DOMAIN v[2]["license"][2])

\* The owner's `type` is present and is none of the values of `accepted`.
OtherType(v, accepted) ==
    /\ v[1] = "object"
    /\ "owner" \in DOMAIN v[2] /\ v[2]["owner"][1] = "object"
    /\ "type" \in DOMAIN v[2]["owner"][2]
    /\ v[2]["owner"][2]["type"] \notin accepted

\* A 2xx response whose body was received whole.
Success(i) == Received(i) /\ net[i].status \in 200..299

\* C3 as stated: on a 2xx response received whole, a body lacking a required
\* field, or whose owner type is any value other than "User" or
\* "Organization", makes the call return DeserializeFailed.
C3_AnyOtherTypeFails ==
    \A i \in Calls :
        (Done(i) /\ Success(i)
         /\ (MissingRequired(net[i].body) \/ OtherType(net[i].body, KindLiterals)))
            => IsErr(result[i], "DeserializeFailed")

\* C3 amended: the same, for an owner type that is neither "User" or
\* "Organization" nor the object {"User": null} or {"Organization": null}.
C3_MissingOrUnknownTypeFails ==
    \A i \in Calls :
        (Done(i) /\ Success(i)
         /\ (MissingRequired(net[i].body)
             \/ OtherType(net[i].body, KindLiterals \cup KindObjects)))
            => IsErr(result[i], "DeserializeFailed")

\* C3 happens: the owner type "Bot" has been refused.
C3_Witness ==
    \E i \in Calls :
        /\ Done(i) /\ Success(i)
        /\ net[i].body = JObj(With(BaseBody, "owner", JObj(With(BaseOwner, "type", JStr("Bot")))))
        /\ result[i] = DeserializeFailed("decode")

HexDigits == <<48, 49, 50, 51, 52, 53, 54, 55, 56, 57, 65, 66, 67, 68, 69, 70>>
\* Letters, digits, '-', '_', '.', '~'.
Unreserved == (65..90) \cup (97..122) \cup (48..57) \cup {45, 95, 46, 126}

\* enc of the property: an octet outside Unreserved becomes its %XX form.
RECURSIVE Enc(_)
Enc(str) ==
    IF Len(str) = 0
    THEN <<>>
    ELSE LET b == str[Len(str)]
         IN  Enc(SubSeq(str, 1, Len(str) - 1))
             \o (IF b \in Unreserved
                 THEN <<b>>
                 ELSE <<37, HexDigits[(b \div 16) + 1], HexDigits[(b % 16) + 1]>>)

\* How often octet b occurs in str.
Count(str, b) == Cardinality({k \in 1..Len(str) : str[k] = b})

\* What follows "https://api.github.com/repos/" in a URL.
AfterRepos(url) == SubSeq(url, Len(UrlPrefix) + 1, Len(url))

\* C4: the URL a request is sent to is "https://api.github.com/repos/" +
\* enc(owner) + "/" + enc(repo); what follows "/repos/" holds exactly one '/'
\* and no '?', '#' or space.
C4_UrlIsEncoded ==
    \A i \in Calls : \A k \in 1..Len(sent[i]) :
        LET url == sent[i][k].url
        IN  /\ url = UrlPrefix \o Enc(owner[i]) \o <<47>> \o Enc(repo[i])
            /\ SubSeq(url, 1, 29) = UrlPrefix
            /\ Count(AfterRepos(url), 47) = 1
            /\ \A b \in {63, 35, 32} : Count(AfterRepos(url), b) = 0

\* C4 happens: a URL was built from "/ " and from U+00E9 "?".
C4_Witness ==
    \E i \in Calls :
        /\ Len(sent[i]) = 1
        /\ owner[i] = <<47, 32>> /\ repo[i] = <<195, 169, 63>>
        /\ AfterRepos(sent[i][1].url)
              = <<37, 50, 70, 37, 50, 48, 47, 37, 67, 51, 37, 65, 57, 37, 51, 70>>

\* C6: every request handed to the transport is a GET to api_url(owner, repo)
\* whose User-Agent header is the package name, for either variant and any
\* arguments.
C6_RequestIsIdentifiedGet ==
    \A i \in Calls : \A k \in 1..Len(sent[i]) :
        /\ sent[i][k].method = "GET"
        /\ sent[i][k].url = api_url(owner[i], repo[i])
        /\ "User-Agent" \in DOMAIN sent[i][k].headers
        /\ sent[i][k].headers["User-Agent"] = "gh-repo-info"

\* C6 happens: blocking::get has sent its request for owner "#", repo "a".
C6_Witness ==
    \E i \in Calls :
        /\ variant[i] = "blocking" /\ Len(sent[i]) = 1
        /\ owner[i] = <<35>> /\ repo[i] = <<97>>

\* The first failure of a script: what the call is to return.
FirstFailure(n) ==
    IF n.send # "ok" THEN "SendRequest"
    ELSE IF n.status \notin 200..299 THEN "ResponseNonSuccess"
    ELSE IF n.read # "ok" \/ ~MatchesRepo(n.body, TRUE) THEN "DeserializeFailed"
    ELSE "none"

\* C5: an invocation never sends more than one request, has sent exactly one
\* when it returns, whatever it returns, and returns the first failure met.
C5_OneRequestPerCall ==
    \A i \in Calls :
        /\ Len(sent[i]) <= 1
        /\ Done(i) =>
              /\ Len(sent[i]) = 1
              /\ IF FirstFailure(net[i]) = "none"
                 THEN result[i][1] = "Ok"
                 ELSE IsErr(result[i], FirstFailure(net[i]))

\* C5 happens: the decode failed after one request, and the call returned.
C5_Witness ==
    \E i \in Calls :
        /\ Done(i) /\ Len(sent[i]) = 1
        /\ result[i] = DeserializeFailed("decode")

(***************************************************************************)
(* The two variants, concurrency and cancellation.                         *)
(***************************************************************************)
\* C7: an invocation of get and one of blocking::get that were given the same
\* arguments and the same transport behaviour return the same value.
C7_VariantsAgree ==
    \A i, j \in Calls :
        (/\ variant[i] = "async" /\ variant[j] = "blocking"
         /\ Done(i) /\ Done(j)
         /\ owner[i] = owner[j] /\ repo[i] = repo[j] /\ net[i] = net[j])
            => result[i] = result[j]

\* C7 happens: both variants returned Ok for a body written in serde's other
\* spelling of the owner type.
C7_Witness ==
    \E i, j \in Calls :
        /\ variant[i] = "async" /\ variant[j] = "blocking"
        /\ Done(i) /\ Done(j) /\ net[i] = net[j]
        /\ result[i][1] = "Ok" /\ result[j][1] = "Ok"
        /\ result[i][2].owner.kind = "User"

\* What an invocation of variant v returns when it runs alone, to its end,
\* with transport behaviour n.
Alone(v, n) ==
    IF v = "async"
    THEN LET first == get_on_send(n)
         IN  IF first.pc = "done" THEN first.result ELSE get_on_json(n).result
    ELSE LET first == blocking_get_on_send(n)
         IN  IF first.pc = "done" THEN first.result ELSE blocking_get_on_json(n).result

\* Everything invocation i holds.
Own(i) == <<pc[i], dropped[i], sent[i], resp[i], decodes[i], result[i]>>

\* C8: under every interleaving, an invocation that has returned has returned
\* what it returns alone for its own arguments and its own response, its
\* request is the one for its own arguments, and no step of one invocation
\* changes anything another invocation holds.
C8_CallsAreIndependent ==
    /\ [](\A i \in Calls :
            /\ Done(i) => result[i] = Alone(variant[i], net[i])
            /\ \A k \in 1..Len(sent[i]) : sent[i][k].url = api_url(owner[i], repo[i]))
    /\ [][\A i, j \in Calls : (i # j /\ Own(i)' # Own(i)) => Own(j)' = Own(j)]_vars

\* C8 happens: two invocations with different arguments and different
\* responses have both returned, one Ok and one an error.
C8_Witness ==
    \E i, j \in Calls :
        /\ i # j /\ Done(i) /\ Done(j)
        /\ owner[i] # owner[j] /\ net[i] # net[j]
        /\ variant[i] = "async" /\ variant[j] = "async"
        /\ result[i][1] = "Ok" /\ result[j] = ResponseNonSuccess(404)

\* C9: an invocation whose future was dropped has returned nothing and never
\* takes another step: no status check, no decode, no request, no result; and
\* the invocations that return after a drop return what they return alone.
C9_DroppedCallStops ==
    /\ [](\A i \in Calls : dropped[i] => result[i] = Pending)
    /\ [][\A i \in Calls : dropped[i] => Own(i)' = Own(i)]_vars
    /\ [][\A i, j \in Calls :
            (dropped[i] /\ ~Done(j) /\ Done(j)')
                => result'[j] = Alone(variant[j], net[j])]_vars

\* C9 happens: a future was dropped at json().await, after its one request and
\* its status check, and another invocation has since returned Ok.
C9_Witness ==
    \E i, j \in Calls :
        /\ i # j
        /\ dropped[i] /\ pc[i] = "await_json" /\ Len(sent[i]) = 1
        /\ decodes[i] = 0 /\ result[i] = Pending
        /\ Done(j) /\ result[j][1] = "Ok"

====
